---- MODULE Spec2Model ----
(***************************************************************************)
(* Model of pkg/utils/hostexec/hostexec.go: the hostexec command wrapper.  *)
(* A Go string is a sequence of one-character strings, so that             *)
(* concatenation, strings.ContainsAny, strings.TrimPrefix and strings.Join *)
(* are computed rather than assumed.                                       *)
(***************************************************************************)
EXTENDS Integers, Sequences, FiniteSets, TLC

\* ------------------------------------------------------------------ bounds
\* longest argument list a caller passes
MaxArgs == 2
\* most SearchPath directories that hold the command in one filesystem
MaxEntries == 2

\* ------------------------------------------------------- string helpers
\* strings.ContainsAny(s, chars)
ContainsAny(s, chars) ==
  \E i \in 1..Len(s) : \E j \in 1..Len(chars) : s[i] = chars[j]

HasPrefix(s, prefix) ==
  /\ Len(prefix) <= Len(s)
  /\ SubSeq(s, 1, Len(prefix)) = prefix

\* strings.TrimPrefix(s, prefix)
TrimPrefix(s, prefix) ==
  IF HasPrefix(s, prefix) THEN SubSeq(s, Len(prefix) + 1, Len(s)) ELSE s

RECURSIVE Join(_, _)
\* strings.Join(elems, sep)
Join(elems, sep) ==
  IF Len(elems) = 0 THEN << >>
  ELSE IF Len(elems) = 1 THEN elems[1]
  ELSE elems[1] \o sep \o Join(Tail(elems), sep)

\* fmt.Sprintf("PATH=%s", s)
SprintfPATH(s) == <<"P", "A", "T", "H", "=">> \o s

\* ------------------------------------------------------------ the state
VARIABLES
  defaultSearchPath,  \* the package-level search path slice
  fs,                 \* the filesystem: path -> "file" | "dir" | "err"; a path not in it does not exist
  newResult,          \* "none" before New, then "ok" or "error"
  newArg,             \* the arguments New was called with, and how its chrootDir stat'ed
  commandMap,         \* hostexec.commandMap
  chrootDir,          \* hostexec.chrootDir
  spawned,            \* the last call handed to the embedded Executor, with what wrap computed
                      \* on the way and how chrootDir stat'ed at that moment
  pc,                 \* per caller: position inside wrap
  call                \* per caller: the locals of its call

vars == <<defaultSearchPath, fs, newResult, newArg, commandMap, chrootDir, spawned, pc, call>>

\* ------------------------------------------------------- input universes
HostRoot == <<"/", "h", "o", "s", "t">>
ChrootDirs == { << >>, HostRoot }

Names == { <<"f", "o", "o">>, <<"e", "n", "v">>, <<"/", "b", "i", "n", "/", "f", "o", "o">> }

\* nil/empty map, an empty value, a value with a separator, a chain of two entries
CmdMaps ==
  { << >>,
    [k \in { <<"f", "o", "o">> } |-> << >>],
    [k \in { <<"f", "o", "o">> } |-> <<"/", "b", "i", "n", "/", "f", "o", "o">>],
    [k \in { <<"f", "o", "o">>, <<"e", "n", "v">> } |-> IF k = <<"f", "o", "o">> THEN <<"e", "n", "v">> ELSE <<"f", "o", "o">>] }

ArgPool == << <<"-", "x">>, <<"-", "y">>, <<"-", "z">>, <<"-", "w">> >>
ArgLists == { SubSeq(ArgPool, 1, n) : n \in 0..MaxArgs }

Contexts == { "ctx" }

SearchDirs ==
  << <<"/", "u", "s", "r", "/", "l", "o", "c", "a", "l", "/", "s", "b", "i", "n">>, <<"/", "u", "s", "r", "/", "l", "o", "c", "a", "l", "/", "b", "i", "n">>, <<"/", "u", "s", "r", "/", "s", "b", "i", "n">>,
     <<"/", "u", "s", "r", "/", "b", "i", "n">>, <<"/", "s", "b", "i", "n">>, <<"/", "b", "i", "n">> >>

\* ------------------------------------------------------------ filesystem
\* os.Stat(path): "noent" is the ENOENT error, "err" any other error
Stat(path) == IF path \in DOMAIN fs THEN fs[path] ELSE "noent"

\* err == nil
StatOk(path) == Stat(path) \in { "file", "dir" }

\* os.IsNotExist(err)
IsNotExist(path) == Stat(path) = "noent"

\* ------------------------------------------------------------ the wrapper
\* variant: the mapped value is looked up again
resolveCmdTwice(cmd, args) ==
  LET once == IF ~(cmd \in DOMAIN commandMap) \/ commandMap[cmd] = << >>
              THEN cmd ELSE commandMap[cmd]
  IN  IF ~(once \in DOMAIN commandMap) \/ commandMap[once] = << >>
      THEN [cmd |-> once, args |-> args]
      ELSE [cmd |-> commandMap[once], args |-> args]

resolveCmd(cmd, args) ==
  IF ~(cmd \in DOMAIN commandMap) \/ commandMap[cmd] = << >>
  THEN [cmd |-> cmd, args |-> args]
  ELSE [cmd |-> commandMap[cmd], args |-> args]

\* testPath of the loop body for directory dir
testPathOf(dir, cmd) ==
  IF chrootDir # << >> THEN chrootDir \o (dir \o <<"/">> \o cmd) ELSE dir \o <<"/">> \o cmd

\* the value returned when the probe of dir succeeds
foundPath(dir, cmd) ==
  IF chrootDir # << >> THEN TrimPrefix(testPathOf(dir, cmd), chrootDir)
  ELSE testPathOf(dir, cmd)

RECURSIVE searchLastMatch(_, _, _)
\* variant: the loop does not return at the first hit, the last hit stays
searchLastMatch(i, cmd, args) ==
  IF i > Len(defaultSearchPath) THEN [cmd |-> cmd, args |-> args]
  ELSE LET rest == searchLastMatch(i + 1, cmd, args)
       IN  IF rest.cmd # cmd THEN rest
           ELSE IF StatOk(testPathOf(defaultSearchPath[i], cmd))
                THEN [cmd |-> foundPath(defaultSearchPath[i], cmd), args |-> args]
                ELSE [cmd |-> cmd, args |-> args]

RECURSIVE searchFrom(_, _, _)
\* the for loop over defaultSearchPath, from index i on
searchFrom(i, cmd, args) ==
  IF i > Len(defaultSearchPath) THEN [cmd |-> cmd, args |-> args]
  ELSE IF StatOk(testPathOf(defaultSearchPath[i], cmd))
       THEN [cmd |-> foundPath(defaultSearchPath[i], cmd), args |-> args]
       ELSE searchFrom(i + 1, cmd, args)

\* variant: the helper is always probed on the host
envPathOnHost == <<"/", "u", "s", "r", "/", "b", "i", "n", "/", "e", "n", "v">>

envPathOf == IF chrootDir # << >> THEN chrootDir \o <<"/", "u", "s", "r", "/", "b", "i", "n", "/", "e", "n", "v">> ELSE <<"/", "u", "s", "r", "/", "b", "i", "n", "/", "e", "n", "v">>

\* variant: the caller's arguments are put before the command
envRewriteArgsFirst(cmd, args) ==
  [cmd |-> <<"/", "u", "s", "r", "/", "b", "i", "n", "/", "e", "n", "v">>,
   args |-> (<< <<"-", "i">>, SprintfPATH(Join(defaultSearchPath, <<":">>)) >> \o args) \o << cmd >>]

\* the "normal path with env available"
envRewrite(cmd, args) ==
  [cmd |-> <<"/", "u", "s", "r", "/", "b", "i", "n", "/", "e", "n", "v">>,
   args |-> << <<"-", "i">>, SprintfPATH(Join(defaultSearchPath, <<":">>)), cmd >> \o args]

\* variant: no probe of the helper, the rewrite is always chosen
wrapEnvAlwaysHelper(cmd, args) ==
  IF ContainsAny(cmd, <<"/">>) THEN [cmd |-> cmd, args |-> args]
  ELSE envRewrite(cmd, args)

\* variant: no test for a separator in the command
wrapEnvNoSeparatorTest(cmd, args) ==
  IF IsNotExist(envPathOf) THEN searchFrom(1, cmd, args)
  ELSE envRewrite(cmd, args)

wrapEnv(cmd, args) ==
  IF ContainsAny(cmd, <<"/">>) THEN [cmd |-> cmd, args |-> args]
  ELSE IF IsNotExist(envPathOf) THEN searchFrom(1, cmd, args)
  ELSE envRewrite(cmd, args)

\* variant: no test for an empty chrootDir
wrapChrootAlways(cmd, args) ==
  [cmd |-> <<"/", "u", "s", "r", "/", "s", "b", "i", "n", "/", "c", "h", "r", "o", "o", "t">>, args |-> << chrootDir, cmd >> \o args]

wrapChroot(cmd, args) ==
  IF chrootDir = << >> THEN [cmd |-> cmd, args |-> args]
  ELSE [cmd |-> <<"/", "u", "s", "r", "/", "s", "b", "i", "n", "/", "c", "h", "r", "o", "o", "t">>, args |-> << chrootDir, cmd >> \o args]

wrap(cmd, args) ==
  LET r1 == resolveCmd(cmd, args)
      r2 == wrapEnv(r1.cmd, r1.args)
  IN  wrapChroot(r2.cmd, r2.args)

\* ------------------------------------------------------- initial states
\* the entries of one root: the helper, and the SearchPath directories that
\* hold the name n, each readable ("file") or failing to stat ("err")
HelperEntry(root, e) ==
  IF e = "noent" THEN { } ELSE { << root \o <<"/", "u", "s", "r", "/", "b", "i", "n", "/", "e", "n", "v">>, e >> }

DirEntries(root, n, img) ==
  { << root \o (SearchDirs[i] \o <<"/">> \o n), img[i] >> : i \in DOMAIN img }

\* the directories whose probe fails with an error other than ENOENT
ErrSets == { { }, { 1 }, { 5 } }

\* up to MaxEntries directories hold the name, some other ones fail to stat
Images ==
  { [i \in S \cup E |-> IF i \in S THEN "file" ELSE "err"] :
      S \in { T \in SUBSET (1..Len(SearchDirs)) : Cardinality(T) <= MaxEntries },
      E \in ErrSets }

FewImages == { << >>, [i \in { 6 } |-> "file"] }

\* the filesystem with exactly the entries E (path, status), one status per path
MkFs(E) == [p \in { e[1] : e \in E } |-> (CHOOSE e \in E : e[1] = p)[2]]

\* no helper and every image of foo; a helper, present or failing to stat,
\* with foo missing or in /bin; no helper and a command named env
Populated(root) ==
  { DirEntries(root, <<"f", "o", "o">>, img) : img \in Images }
  \cup
  { HelperEntry(root, e) \cup DirEntries(root, <<"f", "o", "o">>, img) :
      e \in { "file", "err" }, img \in FewImages }
  \cup
  { DirEntries(root, <<"e", "n", "v">>, img) : img \in FewImages }

\* the tree lives on the host and /host is missing; or it lives under the
\* directory /host; or /host is a regular file or cannot be examined
FsFamily ==
  { MkFs(E) : E \in Populated(<< >>) }
  \cup { MkFs(E \cup { << HostRoot, "dir" >> }) : E \in Populated(HostRoot) }
  \cup { MkFs({ << HostRoot, k >> }) : k \in { "file", "err" } }

\* the filesystems of the interleaving runs: per root, each helper status
\* with nothing found, a hit in the last directory, a failing probe before
\* a hit, and two hits
ConcImages ==
  { << >>,
    [i \in { 6 } |-> "file"],
    [i \in { 2, 5 } |-> IF i = 2 THEN "err" ELSE "file"],
    [i \in { 1, 3 } |-> "file"] }

ConcPopulated(root) ==
  { HelperEntry(root, e) \cup DirEntries(root, <<"f", "o", "o">>, img) :
      e \in { "file", "err", "noent" }, img \in ConcImages }

ConcFsFamily ==
  { MkFs(E) : E \in ConcPopulated(<< >>) }
  \cup { MkFs(E \cup { << HostRoot, "dir" >> }) : E \in ConcPopulated(HostRoot) }

Callers == { "c1", "c2" }

NoCall ==
  [kind |-> "none", ctx |-> "none", name |-> << >>, argv |-> << >>, rootStat |-> "none",
   stage1 |-> [cmd |-> << >>, args |-> << >>],
   stage2 |-> [cmd |-> << >>, args |-> << >>],
   cmd |-> << >>, args |-> << >>]

NoLocals == [name |-> << >>, argv |-> << >>, cmd |-> << >>, args |-> << >>, i |-> 0]

InitFrom(family) ==
  /\ defaultSearchPath = SearchDirs
  /\ fs \in family
  /\ newResult = "none"
  /\ newArg = [cmdMap |-> << >>, chrootDir |-> << >>, stat |-> "none"]
  /\ commandMap = << >>
  /\ chrootDir = << >>
  /\ spawned = NoCall
  /\ pc = [c \in Callers |-> "idle"]
  /\ call = [c \in Callers |-> NoLocals]

Init == InitFrom(FsFamily)

\* ------------------------------------------------------------ operations
\* variant: New tests only that the path exists
chrootDirExists(dir) == dir = << >> \/ StatOk(dir)

\* the check of New: a non-empty chrootDir must stat as a directory
chrootDirValid(dir) == dir = << >> \/ Stat(dir) = "dir"

New(cmdMap, dir) ==
  /\ newResult = "none"
  /\ newArg' = [cmdMap |-> cmdMap, chrootDir |-> dir,
                stat |-> IF dir = << >> THEN "none" ELSE Stat(dir)]
  /\ IF chrootDirValid(dir)
     THEN /\ newResult' = "ok"
          /\ commandMap' = cmdMap
          /\ chrootDir' = dir
     ELSE /\ newResult' = "error"
          /\ UNCHANGED <<commandMap, chrootDir>>
  /\ UNCHANGED <<defaultSearchPath, fs, spawned, pc, call>>

\* what Command and CommandContext hand to the embedded Executor: the
\* result of wrap, kept with the output of each of its three stages
Handed(kind, ctx, cmd, args, r1, r2, r3) ==
  [kind |-> kind, ctx |-> ctx, name |-> cmd, argv |-> args,
   rootStat |-> IF chrootDir = << >> THEN "none" ELSE Stat(chrootDir),
   stage1 |-> r1, stage2 |-> r2, cmd |-> r3.cmd, args |-> r3.args]

\* h.wrap followed by the hand-over to the Executor
WrapAndHand(kind, ctx, cmd, args) ==
  \E r1 \in { resolveCmd(cmd, args) } :
    \E r2 \in { wrapEnv(r1.cmd, r1.args) } :
      \E r3 \in { wrapChroot(r2.cmd, r2.args) } :
        spawned' = Handed(kind, ctx, cmd, args, r1, r2, r3)

Command(cmd, args) ==
  /\ newResult = "ok"
  /\ WrapAndHand("Command", "none", cmd, args)
  /\ UNCHANGED <<defaultSearchPath, fs, newResult, newArg, commandMap, chrootDir, pc, call>>

CommandContext(ctx, cmd, args) ==
  /\ newResult = "ok"
  /\ WrapAndHand("CommandContext", ctx, cmd, args)
  /\ UNCHANGED <<defaultSearchPath, fs, newResult, newArg, commandMap, chrootDir, pc, call>>

\* the environment: the chroot directory is unmounted or removed with all it holds
RemoveChroot ==
  /\ HostRoot \in DOMAIN fs
  /\ fs' = [p \in { q \in DOMAIN fs : ~HasPrefix(q, HostRoot) } |-> fs[p]]
  /\ UNCHANGED <<defaultSearchPath, newResult, newArg, commandMap, chrootDir, spawned, pc, call>>

Next ==
  \/ \E m \in CmdMaps, d \in ChrootDirs : New(m, d)
  \/ \E n \in Names, a \in ArgLists : Command(n, a)
  \/ \E x \in Contexts, n \in Names, a \in ArgLists : CommandContext(x, n, a)

Spec == Init /\ [][Next]_vars

NextFs == Next \/ RemoveChroot

SpecFs == Init /\ [][NextFs]_vars

\* ------------------------------------------- the steps of one wrap call
\* a caller enters Command or CommandContext; wrap looks the name up in commandMap
Call(c, cmd, args) ==
  /\ newResult = "ok"
  /\ pc[c] = "idle"
  /\ call' = [call EXCEPT ![c] =
       [name |-> cmd, argv |-> args,
        cmd |-> resolveCmd(cmd, args).cmd, args |-> resolveCmd(cmd, args).args, i |-> 0]]
  /\ pc' = [pc EXCEPT ![c] = "wrapEnv"]
  /\ UNCHANGED <<defaultSearchPath, fs, newResult, newArg, commandMap, chrootDir, spawned>>

\* variant: the chroot prefix is written into the shared search path
ProbeEnvPrefixInPlace(c) ==
  /\ pc[c] = "wrapEnv"
  /\ IF ContainsAny(call[c].cmd, <<"/">>)
     THEN /\ pc' = [pc EXCEPT ![c] = "wrapChroot"]
          /\ UNCHANGED <<call, defaultSearchPath>>
     ELSE IF IsNotExist(envPathOf)
     THEN /\ pc' = [pc EXCEPT ![c] = "search"]
          /\ call' = [call EXCEPT ![c].i = 1]
          /\ defaultSearchPath' =
               [k \in 1..Len(defaultSearchPath) |-> chrootDir \o defaultSearchPath[k]]
     ELSE /\ pc' = [pc EXCEPT ![c] = "wrapChroot"]
          /\ call' = [call EXCEPT ![c].cmd = envRewrite(call[c].cmd, call[c].args).cmd,
                                  ![c].args = envRewrite(call[c].cmd, call[c].args).args]
          /\ UNCHANGED defaultSearchPath
  /\ UNCHANGED <<fs, newResult, newArg, commandMap, chrootDir, spawned>>

\* wrapEnv up to the probe of the helper
ProbeEnv(c) ==
  /\ pc[c] = "wrapEnv"
  /\ IF ContainsAny(call[c].cmd, <<"/">>)
     THEN /\ pc' = [pc EXCEPT ![c] = "wrapChroot"]
          /\ UNCHANGED call
     ELSE IF IsNotExist(envPathOf)
     THEN /\ pc' = [pc EXCEPT ![c] = "search"]
          /\ call' = [call EXCEPT ![c].i = 1]
     ELSE /\ pc' = [pc EXCEPT ![c] = "wrapChroot"]
          /\ call' = [call EXCEPT ![c].cmd = envRewrite(call[c].cmd, call[c].args).cmd,
                                  ![c].args = envRewrite(call[c].cmd, call[c].args).args]
  /\ UNCHANGED <<defaultSearchPath, fs, newResult, newArg, commandMap, chrootDir, spawned>>

\* variant: the directories are visited in no fixed order
ProbeDirAnyOrder(c) ==
  /\ pc[c] = "search"
  /\ LET hits == { k \in 1..Len(defaultSearchPath) :
                     StatOk(testPathOf(defaultSearchPath[k], call[c].cmd)) }
     IN  IF hits = { }
         THEN UNCHANGED call
         ELSE \E k \in hits :
                call' = [call EXCEPT ![c].cmd = foundPath(defaultSearchPath[k], call[c].cmd)]
  /\ pc' = [pc EXCEPT ![c] = "wrapChroot"]
  /\ UNCHANGED <<defaultSearchPath, fs, newResult, newArg, commandMap, chrootDir, spawned>>

\* one iteration of the loop over defaultSearchPath, or its exit
ProbeDir(c) ==
  /\ pc[c] = "search"
  /\ IF call[c].i > Len(defaultSearchPath)
     THEN /\ pc' = [pc EXCEPT ![c] = "wrapChroot"]
          /\ UNCHANGED call
     ELSE IF StatOk(testPathOf(defaultSearchPath[call[c].i], call[c].cmd))
     THEN /\ pc' = [pc EXCEPT ![c] = "wrapChroot"]
          /\ call' = [call EXCEPT ![c].cmd = foundPath(defaultSearchPath[call[c].i], call[c].cmd)]
     ELSE /\ call' = [call EXCEPT ![c].i = call[c].i + 1]
          /\ UNCHANGED pc
  /\ UNCHANGED <<defaultSearchPath, fs, newResult, newArg, commandMap, chrootDir, spawned>>

\* wrapChroot; the result is what the caller hands to the Executor
WrapChroot(c) ==
  /\ pc[c] = "wrapChroot"
  /\ call' = [call EXCEPT ![c].cmd = wrapChroot(call[c].cmd, call[c].args).cmd,
                          ![c].args = wrapChroot(call[c].cmd, call[c].args).args]
  /\ pc' = [pc EXCEPT ![c] = "done"]
  /\ UNCHANGED <<defaultSearchPath, fs, newResult, newArg, commandMap, chrootDir, spawned>>

\* the entry point returns the exec.Cmd to its caller
Return(c) ==
  /\ pc[c] = "done"
  /\ pc' = [pc EXCEPT ![c] = "idle"]
  /\ call' = [call EXCEPT ![c] = NoLocals]
  /\ UNCHANGED <<defaultSearchPath, fs, newResult, newArg, commandMap, chrootDir, spawned>>

NextConc ==
  \/ \E m \in CmdMaps, d \in ChrootDirs : New(m, d)
  \/ \E c \in Callers, n \in Names, a \in ArgLists : Call(c, n, a)
  \/ \E c \in Callers : ProbeEnv(c)
  \/ \E c \in Callers : ProbeDir(c)
  \/ \E c \in Callers : WrapChroot(c)
  \/ \E c \in Callers : Return(c)

InitConc == InitFrom(ConcFsFamily)

SpecConc == InitConc /\ [][NextConc]_vars

\* ------------------------------------------------------------ properties
Called == spawned.kind # "none"

HasSlash(s) == \E i \in 1..Len(s) : s[i] = "/"

\* NameMap remaps n: n is a key with a non-empty value
Remapped(n) == n \in DOMAIN commandMap /\ commandMap[n] # << >>

ChrootProgram == <<"/", "u", "s", "r", "/", "s", "b", "i", "n", "/", "c", "h", "r", "o", "o", "t">>
EnvHelper == <<"/", "u", "s", "r", "/", "b", "i", "n", "/", "e", "n", "v">>
PathSetting == <<"P", "A", "T", "H", "=", "/", "u", "s", "r", "/", "l", "o", "c", "a", "l", "/", "s", "b", "i", "n", ":", "/", "u", "s", "r", "/", "l", "o", "c", "a", "l", "/", "b", "i", "n", ":", "/", "u", "s", "r", "/", "s", "b", "i", "n", ":", "/", "u", "s", "r", "/", "b", "i", "n", ":", "/", "s", "b", "i", "n", ":", "/", "b", "i", "n">>

\* the six SearchPath directories in order
SixDirs ==
  << <<"/", "u", "s", "r", "/", "l", "o", "c", "a", "l", "/", "s", "b", "i", "n">>, <<"/", "u", "s", "r", "/", "l", "o", "c", "a", "l", "/", "b", "i", "n">>, <<"/", "u", "s", "r", "/", "s", "b", "i", "n">>,
     <<"/", "u", "s", "r", "/", "b", "i", "n">>, <<"/", "s", "b", "i", "n">>, <<"/", "b", "i", "n">> >>

\* the location of the helper as the chrooted process will see it
HelperAt == chrootDir \o EnvHelper

\* directory k holds name n under the chroot root
Holds(k, n) == StatOk(chrootDir \o SixDirs[k] \o <<"/">> \o n)

\* C1: with a chroot root R set, a name that NameMap does not remap and that
\* has no '/', and the helper present at R/usr/bin/env, wrap hands over
\* /usr/sbin/chroot with [R, /usr/bin/env, -i, PATH=<six directories>, name]
\* followed by the caller's arguments in their order.
C1_HelperInChroot ==
  ( /\ Called
    /\ chrootDir # << >>
    /\ ~Remapped(spawned.name)
    /\ ~HasSlash(spawned.name)
    /\ StatOk(HelperAt) )
  => /\ spawned.cmd = ChrootProgram
     /\ spawned.args =
          << chrootDir, EnvHelper, <<"-", "i">>, PathSetting, spawned.name >> \o spawned.argv

C1_Witness ==
  /\ Called
  /\ chrootDir = HostRoot
  /\ spawned.name = <<"f", "o", "o">>
  /\ ~Remapped(spawned.name)
  /\ StatOk(HelperAt)
  /\ spawned.argv = << <<"-", "x">>, <<"-", "y">> >>
  /\ Len(spawned.args) = 7

\* C2: with the helper absent and a chroot root R set, for a name that is not
\* remapped and has no '/', the arguments are [R, D/name] followed by the
\* caller's arguments, D being the first SearchPath directory with an entry
\* at R + D/name; the command element does not carry the R prefix.
C2_FirstDirectoryWins ==
  ( /\ Called
    /\ chrootDir # << >>
    /\ ~Remapped(spawned.name)
    /\ ~HasSlash(spawned.name)
    /\ Stat(HelperAt) = "noent"
    /\ \E k \in 1..6 : Holds(k, spawned.name) )
  => LET first == CHOOSE k \in 1..6 :
                    /\ Holds(k, spawned.name)
                    /\ \A j \in 1..(k - 1) : ~Holds(j, spawned.name)
     IN  spawned.args =
           << chrootDir, SixDirs[first] \o <<"/">> \o spawned.name >> \o spawned.argv

C2_Witness ==
  /\ Called
  /\ chrootDir = HostRoot
  /\ spawned.name = <<"f", "o", "o">>
  /\ ~Remapped(spawned.name)
  /\ Stat(HelperAt) = "noent"
  /\ \E k \in 1..6 : \E j \in (k + 1)..6 :
       /\ Holds(k, spawned.name)
       /\ Holds(j, spawned.name)
       /\ spawned.args[2] = SixDirs[k] \o <<"/", "f", "o", "o">>
  /\ Len(spawned.argv) = 1

\* C3 as stated: with the helper absent, no SearchPath directory holding the
\* name and a chroot root R set, wrap(name, A) hands over [R, name] followed
\* by A, for every name and every NameMap.
C3_AsStated ==
  ( /\ Called
    /\ chrootDir # << >>
    /\ Stat(HelperAt) = "noent"
    /\ \A k \in 1..6 : ~Holds(k, spawned.name) )
  => spawned.args = << chrootDir, spawned.name >> \o spawned.argv

\* C3: every call yields a program and an argument list; with the helper
\* absent, no SearchPath directory holding the name, a chroot root R set and
\* a name that NameMap does not remap, the call hands over /usr/sbin/chroot
\* with [R, name] followed by the caller's arguments.
C3_IdentityFallback ==
  /\ Called => /\ spawned.cmd # << >>
               /\ Len(spawned.args) >= Len(spawned.argv)
  /\ ( /\ Called
       /\ chrootDir # << >>
       /\ ~Remapped(spawned.name)
       /\ Stat(HelperAt) = "noent"
       /\ \A k \in 1..6 : ~Holds(k, spawned.name) )
     => /\ spawned.cmd = ChrootProgram
        /\ spawned.args = << chrootDir, spawned.name >> \o spawned.argv

C3_Witness ==
  /\ Called
  /\ chrootDir = HostRoot
  /\ spawned.name = <<"f", "o", "o">>
  /\ ~Remapped(spawned.name)
  /\ Stat(HelperAt) = "noent"
  /\ \A k \in 1..6 : ~Holds(k, spawned.name)
  /\ \E k \in 1..6 : Stat(chrootDir \o SixDirs[k] \o <<"/", "f", "o", "o">>) = "err"
  /\ spawned.args = << HostRoot, <<"f", "o", "o">>, <<"-", "x">> >>

\* C4: resolveCommand returns the NameMap value for a key with a non-empty
\* value and the name itself otherwise; the value is not looked up again and
\* the arguments are the caller's.
C4_ResolveOnce ==
  Called =>
    /\ spawned.stage1.args = spawned.argv
    /\ spawned.stage1.cmd =
         IF spawned.name \in DOMAIN commandMap /\ commandMap[spawned.name] # << >>
         THEN commandMap[spawned.name]
         ELSE spawned.name

C4_Witness ==
  /\ Called
  /\ spawned.name = <<"f", "o", "o">>
  /\ spawned.stage1.cmd = <<"e", "n", "v">>
  /\ Remapped(spawned.stage1.cmd)
  /\ spawned.argv # << >>

\* C5: normalizeEnvironment leaves a command with a '/' as it is, whatever
\* the filesystem holds; a name NameMap maps to a value with a '/' reaches
\* applyChroot as that value.
C5_ExplicitPath ==
  ( Called /\ HasSlash(spawned.stage1.cmd) ) =>
    /\ spawned.stage2 = spawned.stage1
    /\ Remapped(spawned.name) =>
         IF chrootDir = << >>
         THEN /\ spawned.cmd = commandMap[spawned.name]
              /\ spawned.args = spawned.argv
         ELSE /\ spawned.cmd = ChrootProgram
              /\ spawned.args = << chrootDir, commandMap[spawned.name] >> \o spawned.argv

C5_Witness ==
  /\ Called
  /\ spawned.name = <<"f", "o", "o">>
  /\ Remapped(spawned.name)
  /\ HasSlash(commandMap[spawned.name])
  /\ chrootDir = HostRoot
  /\ StatOk(HelperAt)
  /\ spawned.args = << HostRoot, <<"/", "b", "i", "n", "/", "f", "o", "o">>, <<"-", "x">> >>

\* C6: New fails, leaving no wrapper to call, exactly when its chrootDir is
\* non-empty and does not stat as a directory; otherwise it keeps the map
\* and the directory it was given; a later call does not look at the
\* directory again and wraps with it even after it is gone.
C6_NewChecksOnce ==
  /\ newResult = "error" <=>
       /\ newResult # "none"
       /\ newArg.chrootDir # << >>
       /\ newArg.stat # "dir"
  /\ newResult = "error" => /\ ~Called
                            /\ \A c \in Callers : pc[c] = "idle"
  /\ newResult = "ok" => /\ chrootDir = newArg.chrootDir
                         /\ commandMap = newArg.cmdMap
  /\ ( Called /\ chrootDir # << >> ) =>
       /\ spawned.cmd = ChrootProgram
       /\ Len(spawned.args) >= 2
       /\ spawned.args[1] = chrootDir

C6_Witness ==
  /\ newResult = "ok"
  /\ chrootDir = HostRoot
  /\ newArg.stat = "dir"
  /\ Called
  /\ spawned.rootStat = "noent"
  /\ spawned.cmd = ChrootProgram

\* C7: with no chroot root, applyChroot changes nothing: what is handed over
\* is what normalizeEnvironment(resolveCommand(name, A)) produced, and
\* neither /usr/sbin/chroot nor a root argument is added.
C7_NoChrootUnset ==
  ( Called /\ chrootDir = << >> ) =>
    /\ spawned.cmd = spawned.stage2.cmd
    /\ spawned.args = spawned.stage2.args
    /\ spawned.cmd # ChrootProgram
    /\ \/ spawned.args = spawned.argv
       \/ spawned.args = << <<"-", "i">>, PathSetting, spawned.stage1.cmd >> \o spawned.argv

C7_Witness ==
  /\ Called
  /\ chrootDir = << >>
  /\ spawned.name = <<"f", "o", "o">>
  /\ spawned.cmd = EnvHelper
  /\ Len(spawned.args) = 5

\* C8: two calls with the same name and arguments, under the same
\* configuration and filesystem, end with the same program and arguments.
C8_Deterministic ==
  \A c \in Callers : \A d \in Callers :
    ( /\ pc[c] = "done"
      /\ pc[d] = "done"
      /\ call[c].name = call[d].name
      /\ call[c].argv = call[d].argv )
    => /\ call[c].cmd = call[d].cmd
       /\ call[c].args = call[d].args

C8_Witness ==
  /\ pc["c1"] = "done"
  /\ pc["c2"] = "done"
  /\ call["c1"].name = <<"f", "o", "o">>
  /\ call["c2"].name = <<"f", "o", "o">>
  /\ call["c1"].argv = call["c2"].argv
  /\ ~Remapped(<<"f", "o", "o">>)
  /\ Stat(envPathOf) = "noent"
  /\ Cardinality({ k \in 1..6 : StatOk(testPathOf(SixDirs[k], <<"f", "o", "o">>)) }) = 2

\* C9: however the steps of concurrent calls interleave, the map, the
\* chroot root and the search path keep the values they had at
\* construction, and a finished call holds what wrap gives for its name and
\* arguments when run alone.
C9_ConcurrentCallsSafe ==
  /\ defaultSearchPath = SixDirs
  /\ newResult = "ok" => /\ commandMap = newArg.cmdMap
                         /\ chrootDir = newArg.chrootDir
  /\ \A c \in Callers :
       pc[c] = "done" =>
         /\ call[c].cmd = wrap(call[c].name, call[c].argv).cmd
         /\ call[c].args = wrap(call[c].name, call[c].argv).args

C9_Witness ==
  /\ pc["c1"] = "done"
  /\ pc["c2"] = "search"
  /\ call["c2"].i > 1
  /\ call["c1"].name # call["c2"].name
  /\ chrootDir = HostRoot
  /\ commandMap # << >>

\* the helper rewrite of the command that came out of resolveCommand
IsHelperRewrite ==
  /\ spawned.stage2.cmd = EnvHelper
  /\ spawned.stage2.args = << <<"-", "i">>, PathSetting, spawned.stage1.cmd >> \o spawned.argv

\* the result of the SearchPath probe: the command itself or D/command, same arguments
IsFallback ==
  /\ spawned.stage2.args = spawned.argv
  /\ \/ spawned.stage2.cmd = spawned.stage1.cmd
     \/ \E k \in 1..6 : spawned.stage2.cmd = SixDirs[k] \o <<"/">> \o spawned.stage1.cmd

\* C10 as stated: for a command without '/', the helper rewrite is chosen
\* exactly when the helper is found present at the probed location, and the
\* fallback in every other case, a probe failing with another error included.
C10_AsStated ==
  ( Called /\ ~HasSlash(spawned.stage1.cmd) ) =>
    /\ IsHelperRewrite <=> StatOk(HelperAt)
    /\ ~StatOk(HelperAt) => IsFallback

\* C10: for a command without '/', the fallback SearchPath probe is used
\* exactly when the probe of the helper (at ChrootRoot + /usr/bin/env, or
\* /usr/bin/env with no chroot) reports that it does not exist; when the
\* helper is present, and also when the probe fails with another error, the
\* helper rewrite is chosen.
C10_HelperUnlessNotExist ==
  ( Called /\ ~HasSlash(spawned.stage1.cmd) ) =>
    /\ IsHelperRewrite <=> Stat(HelperAt) # "noent"
    /\ Stat(HelperAt) = "noent" => IsFallback

C10_Witness ==
  /\ Called
  /\ ~HasSlash(spawned.stage1.cmd)
  /\ chrootDir = HostRoot
  /\ Stat(HelperAt) = "err"
  /\ IsHelperRewrite
====
